---- MODULE Spec2Model ----
(***************************************************************************)
(* Model of McDonaldApp.py: the OrderController (orders list, pending      *)
(* deque, bot pool, order_lock), the Bot threads (Bot.run, one step per    *)
(* source line that reads or writes shared state) and the main thread      *)
(* (main's menu loop, remove_bot's join under the lock, display_orders'    *)
(* iteration, shutdown).                                                   *)
(*                                                                         *)
(* Objects are references: an Order is a reference into ord, a Bot a       *)
(* reference into bot; references are allocation indices, distinct from    *)
(* the order_number / bot_id fields the code stores in the object.         *)
(* datetime values are abstracted to the token Stamp (set) and None.       *)
(* The wall-clock test of line 37 is an environment read: either outcome.  *)
(***************************************************************************)
EXTENDS Integers, Sequences, FiniteSets, TLC

\* ---- bounds -------------------------------------------------------------
MaxOrders == 3
MaxBots == 2

\* ---- values -------------------------------------------------------------
None == "None"
Stamp == "T"
OrderTypes == {"normal", "VIP"}
Filters == {"ALL", "PENDING", "PROCESSING", "COMPLETE"}

VARIABLES
    ord,             \* Order objects: ref -> [order_number, type, status, creation_time, start_time, end_time]
    orders,          \* OrderController.orders: sequence of Order refs
    pending_orders,  \* OrderController.pending_orders: deque of Order refs
    order_number,    \* OrderController.order_number
    bot,             \* Bot objects: ref -> [bot_id, pc, order, current_order, stop_event]
    bots,            \* OrderController.bots: list of Bot refs
    bot_id_counter,  \* OrderController.bot_id_counter
    order_lock,      \* OrderController.order_lock: None or its holder
    m_pc,            \* main thread's position
    m_bot,           \* main thread: the Bot whose stop()/join it is in
    m_idx,           \* main thread: loop index of display_orders / shutdown
    m_filter,        \* display_orders: filter_status
    filtered_orders, \* display_orders: rows built so far
    dispatched,      \* history: the Order refs get_next_order has returned
    issued,          \* history: bot ids in the order add_bot returned them
    removed          \* history: the Bots a call of remove_bot has returned for

vars == <<ord, orders, pending_orders, order_number, bot, bots, bot_id_counter,
          order_lock, m_pc, m_bot, m_idx, m_filter, filtered_orders,
          dispatched, issued, removed>>

ctlVars == <<orders, pending_orders, order_number, bots, bot_id_counter>>
mainVars == <<m_pc, m_bot, m_idx, m_filter, filtered_orders>>
histVars == <<dispatched, issued, removed>>

OrderRefs == DOMAIN ord
BotRefs == DOMAIN bot

\* ---- Order ---------------------------------------------------------------
\* Order.__init__
\* (faulty variant, used to test C20: start_time stamped at construction, as
\* creation_time is)
NewOrderStarted(n, t) ==
    [order_number |-> n, type |-> t, status |-> "PENDING",
     creation_time |-> Stamp, start_time |-> Stamp, end_time |-> None]
NewOrder(n, t) ==
    [order_number |-> n, type |-> t, status |-> "PENDING",
     creation_time |-> Stamp, start_time |-> None, end_time |-> None]

\* order.type.upper() == 'VIP'
IsVIP(o) == ord[o].type = "VIP"

\* ---- sequence helpers (collections.deque / list) ---------------------------
\* deque.insert(i, x): x ends up at 0-based position i
\* (faulty variant, used to test C15: q[i] = x, which overwrites an element)
InsertAtOverwrite(q, i, x) ==
    SubSeq(q, 1, i) \o <<x>> \o SubSeq(q, i + 2, Len(q))
InsertAt(q, i, x) == SubSeq(q, 1, i) \o <<x>> \o SubSeq(q, i + 1, Len(q))

\* add_order, lines 75-79: the index after the leading run of VIP orders
\* (faulty variant, used to test C1: every VIP goes to the very front)
VipIndexFront(q) == 0
VipIndex(q) ==
    LET nonVip == {i \in 1..Len(q) : ~IsVIP(q[i])}
    IN  IF nonVip = {} THEN Len(q)
        ELSE (CHOOSE i \in nonVip : \A j \in nonVip : i <= j) - 1

\* add_order, line 69
\* (faulty variant, used to test C6: the increment forgotten)
NextOrderNumberStuck(n) == n
NextOrderNumber(n) == n + 1

\* get_next_order, line 90: popleft takes the element at this position
\* (faulty variant, used to test C2: pop() in place of popleft())
PopPositionRight(q) == Len(q)
PopPosition(q) == 1

\* remove_bot, line 109: list.pop() takes the element at this position
\* (faulty variant, used to test C10: pop(0) in place of pop())
BotPopPositionFirst(bs) == 1
BotPopPosition(bs) == Len(bs)

RemoveAt(q, i) == SubSeq(q, 1, i - 1) \o SubSeq(q, i + 1, Len(q))

\* ---- Bot -----------------------------------------------------------------
\* Bot.stop, line 53: threading.Event.set() on an event whose flag is e
\* (faulty variant, used to test C13: the flag flipped instead of set)
EventToggle(e) == ~e
EventSet(e) == TRUE

\* Bot.__init__
NewBot(id) ==
    [bot_id |-> id, pc |-> "L29", order |-> None, current_order |-> None,
     stop_event |-> FALSE]

\* the thread has returned from run(): the loop of line 29 ended, or line 43
Terminated(b) == bot[b].pc \in {"end", "L43"}

Init ==
    /\ ord = <<>>
    /\ orders = <<>>
    /\ pending_orders = <<>>
    /\ order_number = 0
    /\ bot = <<>>
    /\ bots = <<>>
    /\ bot_id_counter = 1
    /\ order_lock = None
    /\ m_pc = "menu"
    /\ m_bot = None
    /\ m_idx = 0
    /\ m_filter = None
    /\ filtered_orders = <<>>
    /\ dispatched = {}
    /\ issued = <<>>
    /\ removed = {}

\* ---- main thread: OrderController operations --------------------------------

\* add_order(order_type), lines 67-85, whole body under order_lock
AddOrder(t) ==
    /\ m_pc = "menu"
    /\ order_lock = None
    /\ Len(ord) < MaxOrders
    /\ LET n == NextOrderNumber(order_number)
           ref == Len(ord) + 1
       IN  /\ order_number' = n
           /\ ord' = Append(ord, NewOrder(n, t))
           /\ orders' = Append(orders, ref)
           /\ pending_orders' =
                 IF t = "VIP"
                 THEN InsertAt(pending_orders, VipIndex(pending_orders), ref)
                 ELSE Append(pending_orders, ref)
    /\ UNCHANGED <<bot, bots, bot_id_counter, order_lock, m_pc, m_bot, m_idx,
                   m_filter, filtered_orders, dispatched, issued, removed>>

\* add_bot(), lines 95-102, whole body under order_lock
AddBot ==
    /\ m_pc = "menu"
    /\ order_lock = None
    /\ Len(bot) < MaxBots
    /\ LET ref == Len(bot) + 1
       IN  /\ bot' = Append(bot, NewBot(bot_id_counter))
           /\ bot_id_counter' = bot_id_counter + 1
           /\ bots' = Append(bots, ref)
           /\ issued' = Append(issued, bot_id_counter)
    /\ UNCHANGED <<ord, orders, pending_orders, order_number, order_lock, m_pc,
                   m_bot, m_idx, m_filter, filtered_orders, dispatched, removed>>

\* remove_bot(), lines 105-106: takes order_lock and finds the pool empty
RemoveBotEmpty ==
    /\ m_pc = "menu"
    /\ order_lock = None
    /\ bots = <<>>
    /\ order_lock' = "main"
    /\ m_pc' = "rb_none"
    /\ UNCHANGED <<ord, ctlVars, bot, m_bot, m_idx, m_filter, filtered_orders,
                   histVars>>

\* remove_bot(), lines 107-108: prints, returns, order_lock released
\* (faulty variant, used to test C11: no test of line 106, so bots.pop()
\* raises IndexError and main() goes to its finally)
RemoveBotEmptyRaise ==
    /\ m_pc = "rb_none"
    /\ order_lock' = None
    /\ m_pc' = "shutdown"
    /\ m_idx' = 1
    /\ UNCHANGED <<ord, ctlVars, bot, m_bot, m_filter, filtered_orders,
                   histVars>>
RemoveBotEmptyReturn ==
    /\ m_pc = "rb_none"
    /\ order_lock' = None
    /\ m_pc' = "menu"
    /\ UNCHANGED <<ord, ctlVars, bot, m_bot, m_idx, m_filter, filtered_orders,
                   histVars>>

\* remove_bot(), lines 105-110 and Bot.stop() lines 53-55: takes order_lock,
\* pops the bot, sets its stop_event; the join of line 56 follows with the
\* lock still held
RemoveBotBegin ==
    /\ m_pc = "menu"
    /\ order_lock = None
    /\ bots # <<>>
    /\ LET p == BotPopPosition(bots)
           b == bots[p]
       IN  /\ bots' = RemoveAt(bots, p)
           /\ bot' = [bot EXCEPT ![b].stop_event = EventSet(@)]
           /\ m_bot' = b
    /\ order_lock' = "main"
    /\ m_pc' = "rb_join"
    /\ UNCHANGED <<ord, orders, pending_orders, order_number, bot_id_counter,
                   m_idx, m_filter, filtered_orders, histVars>>

\* Bot.stop() line 56 inside remove_bot: join returns once the thread has ended;
\* then line 111 and the release of order_lock
\* (faulty variant, used to test C9: stop() without the join)
RemoveBotJoinNoWait ==
    /\ m_pc = "rb_join"
    /\ order_lock' = None
    /\ m_pc' = "menu"
    /\ m_bot' = None
    /\ removed' = removed \cup {m_bot}
    /\ UNCHANGED <<ord, ctlVars, bot, m_idx, m_filter, filtered_orders,
                   dispatched, issued>>
RemoveBotJoin ==
    /\ m_pc = "rb_join"
    /\ Terminated(m_bot)
    /\ order_lock' = None
    /\ m_pc' = "menu"
    /\ m_bot' = None
    /\ removed' = removed \cup {m_bot}
    /\ UNCHANGED <<ord, ctlVars, bot, m_idx, m_filter, filtered_orders,
                   dispatched, issued>>

\* KeyboardInterrupt while blocked in the join of remove_bot: the with block
\* releases order_lock, main() lines 247-250 go on to shutdown()
RemoveBotInterrupt ==
    /\ m_pc = "rb_join"
    /\ order_lock' = None
    /\ m_pc' = "shutdown"
    /\ m_idx' = 1
    /\ m_bot' = None
    /\ UNCHANGED <<ord, ctlVars, bot, m_filter, filtered_orders, histVars>>

\* display_orders(filter_status), lines 137-140: nothing placed yet
DisplayEmpty(f) ==
    /\ m_pc = "menu"
    /\ order_lock = None
    /\ orders = <<>>
    /\ UNCHANGED <<ord, ctlVars, bot, order_lock, m_pc, m_bot, m_idx, m_filter,
                   filtered_orders, histVars>>

\* display_orders(filter_status), lines 137-142: takes order_lock and starts
\* the loop of line 143
DisplayBegin(f) ==
    /\ m_pc = "menu"
    /\ order_lock = None
    /\ orders # <<>>
    /\ order_lock' = "main"
    /\ m_pc' = "display"
    /\ m_idx' = 1
    /\ m_filter' = f
    /\ filtered_orders' = <<>>
    /\ UNCHANGED <<ord, ctlVars, bot, m_bot, histVars>>

\* lines 144-188 for one order: the row display_orders builds
Row(o) ==
    [order_number |-> ord[o].order_number,
     type |-> ord[o].type,
     status |-> ord[o].status,
     progress |-> IF ord[o].status = "PROCESSING" /\ ord[o].start_time # None
                  THEN "bar" ELSE "-",
     start_time |-> IF ord[o].status = "PENDING" THEN "-"
                    ELSE IF ord[o].start_time # None THEN Stamp ELSE "-",
     end_time |-> IF ord[o].status = "COMPLETE" /\ ord[o].end_time # None
                  THEN Stamp ELSE "-"]

\* line 144
Selected(o) == m_filter = "ALL" \/ ord[o].status = m_filter

\* line 151: order.start_time - order.creation_time with start_time None
RaisesTypeError(o) == ord[o].status = "PROCESSING" /\ ord[o].start_time = None

\* one iteration of the loop of line 143
DisplayRow ==
    /\ m_pc = "display"
    /\ m_idx <= Len(orders)
    /\ LET o == orders[m_idx]
       IN  /\ ~(Selected(o) /\ RaisesTypeError(o))
           /\ filtered_orders' = IF Selected(o)
                                 THEN Append(filtered_orders, Row(o))
                                 ELSE filtered_orders
    /\ m_idx' = m_idx + 1
    /\ UNCHANGED <<ord, ctlVars, bot, order_lock, m_pc, m_bot, m_filter,
                   histVars>>

\* line 151 raises TypeError: the with block releases order_lock and the
\* finally of main() (line 250) runs shutdown()
DisplayTypeError ==
    /\ m_pc = "display"
    /\ m_idx <= Len(orders)
    /\ Selected(orders[m_idx])
    /\ RaisesTypeError(orders[m_idx])
    /\ order_lock' = None
    /\ m_pc' = "shutdown"
    /\ m_idx' = 1
    /\ m_filter' = None
    /\ filtered_orders' = <<>>
    /\ UNCHANGED <<ord, ctlVars, bot, m_bot, histVars>>

\* lines 190-195: the loop is over, the table is printed, order_lock released
DisplayEnd ==
    /\ m_pc = "display"
    /\ m_idx > Len(orders)
    /\ order_lock' = None
    /\ m_pc' = "menu"
    /\ m_idx' = 0
    /\ m_filter' = None
    /\ filtered_orders' = <<>>
    /\ UNCHANGED <<ord, ctlVars, bot, m_bot, histVars>>

\* main(), lines 242-250: choice 6 or KeyboardInterrupt at the prompt
Exit ==
    /\ m_pc = "menu"
    /\ m_pc' = "shutdown"
    /\ m_idx' = 1
    /\ UNCHANGED <<ord, ctlVars, bot, order_lock, m_bot, m_filter,
                   filtered_orders, histVars>>

\* shutdown() is written once, for the call that is at position `here`
\* (its loop of line 199), `join` (inside Bot.stop) and `done` (returned).

\* shutdown(), lines 199-200 and Bot.stop() lines 53-55: next bot of the pool
ShutdownStopAt(here, join) ==
    /\ m_pc = here
    /\ m_idx <= Len(bots)
    /\ bot' = [bot EXCEPT ![bots[m_idx]].stop_event = EventSet(@)]
    /\ m_bot' = bots[m_idx]
    /\ m_pc' = join
    /\ UNCHANGED <<ord, ctlVars, order_lock, m_idx, m_filter, filtered_orders,
                   histVars>>

\* Bot.stop() line 56 inside shutdown
ShutdownJoinAt(here, join) ==
    /\ m_pc = join
    /\ Terminated(m_bot)
    /\ m_pc' = here
    /\ m_idx' = m_idx + 1
    /\ m_bot' = None
    /\ UNCHANGED <<ord, ctlVars, bot, order_lock, m_filter, filtered_orders,
                   histVars>>

\* shutdown(), line 201: the loop is over, shutdown returns
ShutdownDoneAt(here, done) ==
    /\ m_pc = here
    /\ m_idx > Len(bots)
    /\ m_pc' = done
    /\ UNCHANGED <<ord, ctlVars, bot, order_lock, m_bot, m_idx, m_filter,
                   filtered_orders, histVars>>

\* the call of shutdown() that main() makes (line 250); "exited" is main()
\* past that call, at sys.exit() of line 251
ShutdownStop == ShutdownStopAt("shutdown", "sd_join")
ShutdownJoin == ShutdownJoinAt("shutdown", "sd_join")
ShutdownDone == ShutdownDoneAt("shutdown", "exited")

\* a caller that calls shutdown() a second time once the first has returned
ShutdownAgain ==
    /\ m_pc = "exited"
    /\ m_pc' = "shutdown2"
    /\ m_idx' = 1
    /\ UNCHANGED <<ord, ctlVars, bot, order_lock, m_bot, m_filter,
                   filtered_orders, histVars>>

ShutdownStop2 == ShutdownStopAt("shutdown2", "sd_join2")
ShutdownJoin2 == ShutdownJoinAt("shutdown2", "sd_join2")
ShutdownDone2 == ShutdownDoneAt("shutdown2", "exited2")

\* ---- Bot.run ----------------------------------------------------------------

\* line 29: while not self.stop_event.is_set()
BotLoopCheck(b) ==
    /\ bot[b].pc = "L29"
    /\ bot' = [bot EXCEPT ![b].pc = IF bot[b].stop_event THEN "end" ELSE "L30"]
    /\ UNCHANGED <<ord, ctlVars, order_lock, mainVars, histVars>>

\* line 30 and get_next_order(), lines 87-93, under order_lock; lines 31, 49-50
\* (faulty variant, used to test C18: pending_orders[0] read, not popped)
BotGetNextOrderPeek(b) ==
    /\ bot[b].pc = "L30"
    /\ order_lock = None
    /\ IF pending_orders # <<>>
       THEN /\ bot' = [bot EXCEPT ![b].order = pending_orders[1], ![b].pc = "L32"]
            /\ dispatched' = dispatched \cup {pending_orders[1]}
       ELSE /\ bot' = [bot EXCEPT ![b].order = None, ![b].pc = "L29"]
            /\ UNCHANGED dispatched
    /\ UNCHANGED <<ord, ctlVars, order_lock, mainVars, issued, removed>>
BotGetNextOrder(b) ==
    /\ bot[b].pc = "L30"
    /\ order_lock = None
    /\ IF pending_orders # <<>>
       THEN LET p == PopPosition(pending_orders)
            IN  /\ pending_orders' = RemoveAt(pending_orders, p)
                /\ bot' = [bot EXCEPT ![b].order = pending_orders[p], ![b].pc = "L32"]
                /\ dispatched' = dispatched \cup {pending_orders[p]}
       ELSE /\ bot' = [bot EXCEPT ![b].order = None, ![b].pc = "L29"]
            /\ UNCHANGED <<pending_orders, dispatched>>
    /\ UNCHANGED <<ord, orders, order_number, bots, bot_id_counter, order_lock,
                   mainVars, issued, removed>>

\* line 32: self.current_order = order
BotSetCurrent(b) ==
    /\ bot[b].pc = "L32"
    /\ bot' = [bot EXCEPT ![b].current_order = bot[b].order, ![b].pc = "L33"]
    /\ UNCHANGED <<ord, ctlVars, order_lock, mainVars, histVars>>

\* line 33: order.status = "PROCESSING"
\* (faulty variant, used to test C7: the order marked COMPLETE at once)
BotMarkCompleteEarly(b) ==
    /\ bot[b].pc = "L33"
    /\ ord' = [ord EXCEPT ![bot[b].order].status = "COMPLETE"]
    /\ bot' = [bot EXCEPT ![b].pc = "L34"]
    /\ UNCHANGED <<ctlVars, order_lock, mainVars, histVars>>
BotMarkProcessing(b) ==
    /\ bot[b].pc = "L33"
    /\ ord' = [ord EXCEPT ![bot[b].order].status = "PROCESSING"]
    /\ bot' = [bot EXCEPT ![b].pc = "L34"]
    /\ UNCHANGED <<ctlVars, order_lock, mainVars, histVars>>

\* line 34: order.start_time = datetime.now()
BotStampStart(b) ==
    /\ bot[b].pc = "L34"
    /\ ord' = [ord EXCEPT ![bot[b].order].start_time = Stamp]
    /\ bot' = [bot EXCEPT ![b].pc = "L37"]
    /\ UNCHANGED <<ctlVars, order_lock, mainVars, histVars>>

\* line 37: while time.time() - start_time < 10 finds the duration reached and
\* the loop ends. The clock is an environment read: the test may come out
\* either way at every iteration.
BotTimeUp(b) ==
    /\ bot[b].pc = "L37"
    /\ bot' = [bot EXCEPT ![b].pc = "L45"]
    /\ UNCHANGED <<ord, ctlVars, order_lock, mainVars, histVars>>

\* lines 37-38: the duration is not reached and stop_event is set. (While it
\* is not set, line 44 sleeps and the bot is back at line 37, unchanged.)
BotCancelCheck(b) ==
    /\ bot[b].pc = "L37"
    /\ bot[b].stop_event
    /\ bot' = [bot EXCEPT ![b].pc = "L40"]
    /\ UNCHANGED <<ord, ctlVars, order_lock, mainVars, histVars>>

\* line 40: order.status = "PENDING"
BotCancelStatus(b) ==
    /\ bot[b].pc = "L40"
    /\ ord' = [ord EXCEPT ![bot[b].order].status = "PENDING"]
    /\ bot' = [bot EXCEPT ![b].pc = "L41"]
    /\ UNCHANGED <<ctlVars, order_lock, mainVars, histVars>>

\* line 41: order.start_time = None
BotCancelClearStart(b) ==
    /\ bot[b].pc = "L41"
    /\ ord' = [ord EXCEPT ![bot[b].order].start_time = None]
    /\ bot' = [bot EXCEPT ![b].pc = "L42"]
    /\ UNCHANGED <<ctlVars, order_lock, mainVars, histVars>>

\* lines 42-43: self.current_order = None; return
\* (faulty variant, used to test C16: continue in place of return, so the bot
\* goes back to the test of line 29)
BotCancelReloop(b) ==
    /\ bot[b].pc = "L42"
    /\ bot' = [bot EXCEPT ![b].current_order = None, ![b].pc = "L29"]
    /\ UNCHANGED <<ord, ctlVars, order_lock, mainVars, histVars>>
BotCancelRelease(b) ==
    /\ bot[b].pc = "L42"
    /\ bot' = [bot EXCEPT ![b].current_order = None, ![b].pc = "L43"]
    /\ UNCHANGED <<ord, ctlVars, order_lock, mainVars, histVars>>

\* line 45: order.status = "COMPLETE"
BotCompleteStatus(b) ==
    /\ bot[b].pc = "L45"
    /\ ord' = [ord EXCEPT ![bot[b].order].status = "COMPLETE"]
    /\ bot' = [bot EXCEPT ![b].pc = "L46"]
    /\ UNCHANGED <<ctlVars, order_lock, mainVars, histVars>>

\* line 46: order.end_time = datetime.now()
BotStampEnd(b) ==
    /\ bot[b].pc = "L46"
    /\ ord' = [ord EXCEPT ![bot[b].order].end_time = Stamp]
    /\ bot' = [bot EXCEPT ![b].pc = "L48"]
    /\ UNCHANGED <<ctlVars, order_lock, mainVars, histVars>>

\* line 48: self.current_order = None, back to line 29; the local order is
\* dead from here on (line 30 assigns it before any read), so it is dropped
\* (faulty variant, used to test C14: run() returns after its first order)
BotCompleteReturn(b) ==
    /\ bot[b].pc = "L48"
    /\ bot' = [bot EXCEPT ![b].current_order = None, ![b].order = None,
                          ![b].pc = "end"]
    /\ UNCHANGED <<ord, ctlVars, order_lock, mainVars, histVars>>
BotCompleteRelease(b) ==
    /\ bot[b].pc = "L48"
    /\ bot' = [bot EXCEPT ![b].current_order = None, ![b].order = None,
                          ![b].pc = "L29"]
    /\ UNCHANGED <<ord, ctlVars, order_lock, mainVars, histVars>>

BotStep(b) ==
    \/ BotLoopCheck(b)
    \/ BotGetNextOrder(b)
    \/ BotSetCurrent(b)
    \/ BotMarkProcessing(b)
    \/ BotStampStart(b)
    \/ BotTimeUp(b)
    \/ BotCancelCheck(b)
    \/ BotCancelStatus(b)
    \/ BotCancelClearStart(b)
    \/ BotCancelRelease(b)
    \/ BotCompleteStatus(b)
    \/ BotStampEnd(b)
    \/ BotCompleteRelease(b)

\* the controller operations that write the controller's or a bot's state
CoreStep ==
    \/ \E t \in OrderTypes : AddOrder(t)
    \/ AddBot
    \/ RemoveBotEmpty
    \/ RemoveBotEmptyReturn
    \/ RemoveBotBegin
    \/ RemoveBotJoin
    \/ RemoveBotInterrupt
    \/ Exit
    \/ ShutdownStop
    \/ ShutdownJoin
    \/ ShutdownDone

\* display_orders: reads under order_lock, writes nothing but its own rows
DisplayStep ==
    \/ \E f \in Filters : DisplayEmpty(f)
    \/ \E f \in Filters : DisplayBegin(f)
    \/ DisplayRow
    \/ DisplayTypeError
    \/ DisplayEnd

Next ==
    \/ CoreStep
    \/ DisplayStep
    \/ \E b \in BotRefs : BotStep(b)

\* the whole program
Spec == Init /\ [][Next]_vars

NextCore ==
    \/ CoreStep
    \/ \E b \in BotRefs : BotStep(b)

\* the program without queries: display_orders changes no order, queue, bot
\* or counter, so the controller and bot states reached are the same
SpecCore == Init /\ [][NextCore]_vars

NextTwice ==
    \/ NextCore
    \/ ShutdownAgain
    \/ ShutdownStop2
    \/ ShutdownJoin2
    \/ ShutdownDone2

\* the program without queries, with a second call of shutdown() after the
\* one main() makes
SpecTwice == Init /\ [][NextTwice]_vars

\* threads are scheduled: a bot that can take a step of run() takes one; a bot
\* waiting for order_lock gets it if the lock is free again and again (the main
\* thread releases it and waits for input); and the clock of line 37 reaches
\* the duration (strong: the bot also polls stop_event at that line)
BotFairness ==
    \A b \in 1..MaxBots :
        /\ WF_vars(b \in BotRefs /\ BotStep(b))
        /\ SF_vars(b \in BotRefs /\ BotGetNextOrder(b))
        /\ SF_vars(b \in BotRefs /\ BotTimeUp(b))

\* the main thread runs whenever it is not waiting for input: a join whose
\* thread has ended returns, shutdown goes on to its next bot
MainFairness ==
    /\ WF_vars(RemoveBotEmptyReturn)
    /\ WF_vars(RemoveBotJoin)
    /\ WF_vars(ShutdownStop \/ ShutdownJoin \/ ShutdownDone)

FairSpec == SpecCore /\ BotFairness /\ MainFairness

\* the steps of run() of a bot whose stop_event is never set
BotWorkStep(b) ==
    \/ BotLoopCheck(b)
    \/ BotGetNextOrder(b)
    \/ BotSetCurrent(b)
    \/ BotMarkProcessing(b)
    \/ BotStampStart(b)
    \/ BotTimeUp(b)
    \/ BotCompleteStatus(b)
    \/ BotStampEnd(b)
    \/ BotCompleteRelease(b)

NextNoStop ==
    \/ \E t \in OrderTypes : AddOrder(t)
    \/ AddBot
    \/ \E b \in BotRefs : BotWorkStep(b)

\* the runs in which no bot is ever stopped: main() only places orders and
\* adds bots (no remove_bot, no exit), and every bot thread is scheduled.
\* (Weak fairness is enough here: with no stop and no join, order_lock is
\* never held across a step and line 37 has the clock as its only way on.)
FairNoStop ==
    /\ Init /\ [][NextNoStop]_vars
    /\ \A b \in 1..MaxBots : WF_vars(b \in BotRefs /\ BotWorkStep(b))

\* ---- definitions used by the properties -------------------------------------
Range(q) == {q[i] : i \in 1..Len(q)}
Number(o) == ord[o].order_number
SameClass(o, p) == ord[o].type = ord[p].type

Complete(o) == o \in OrderRefs /\ ord[o].status = "COMPLETE"

\* a bot that is in the pool and has not been told to stop
Running(b) == b \in Range(bots) /\ ~bot[b].stop_event /\ ~Terminated(b)

TypeOK ==
    /\ order_number \in 0..MaxOrders
    /\ Len(ord) <= MaxOrders
    /\ Len(bot) <= MaxBots
    /\ order_lock \in {None, "main"}
    /\ dispatched \subseteq OrderRefs
    /\ removed \subseteq BotRefs

\* ---- C1 -------------------------------------------------------------------
\* C1: in every reachable state pending_orders is a run of VIP orders followed
\* by a run of NORMAL orders, each run in ascending order_number.
C1_PendingVipThenNormalFifo ==
    \A i, j \in 1..Len(pending_orders) :
        i < j =>
            /\ IsVIP(pending_orders[j]) => IsVIP(pending_orders[i])
            /\ SameClass(pending_orders[i], pending_orders[j])
                   => Number(pending_orders[i]) < Number(pending_orders[j])

\* two VIP orders queued ahead of a NORMAL order submitted before the second
\* VIP, after a bot was added and removed
C1_Witness ==
    /\ Len(pending_orders) = 3
    /\ IsVIP(pending_orders[1]) /\ IsVIP(pending_orders[2])
    /\ ~IsVIP(pending_orders[3])
    /\ Number(pending_orders[3]) < Number(pending_orders[2])
    /\ removed # {}

\* ---- C2 -------------------------------------------------------------------
\* C2: whenever get_next_order returns an order, (a) if it is NORMAL no VIP
\* order is in pending_orders, and (b) every order of the same class returned
\* earlier has a smaller order_number.
C2_DispatchVipFirstFifo ==
    [][\A r \in dispatched' \ dispatched :
          /\ ~IsVIP(r) => \A i \in 1..Len(pending_orders) :
                              pending_orders[i] = r \/ ~IsVIP(pending_orders[i])
          /\ \A o \in dispatched : SameClass(o, r) => Number(o) < Number(r)]_vars

\* a NORMAL order and a VIP order submitted after it were both dispatched, and
\* so were two orders of one class
C2_Witness ==
    /\ \E n, v \in dispatched : ~IsVIP(n) /\ IsVIP(v) /\ Number(n) < Number(v)
    /\ \E o, p \in dispatched : o # p /\ SameClass(o, p)

\* ---- C3 -------------------------------------------------------------------
\* C3: when remove_bot returns for a bot that was stopped mid-task (its run()
\* returned at line 43), the order it held has status PENDING and is the head
\* of pending_orders.
C3_CancelledOrderRequeuedAtFront ==
    [][(m_pc = "rb_join" /\ m_pc' = "menu" /\ bot[m_bot].pc = "L43") =>
          /\ ord'[bot[m_bot].order].status = "PENDING"
          /\ pending_orders' # <<>>
          /\ Head(pending_orders') = bot[m_bot].order]_vars

\* ---- C4 -------------------------------------------------------------------
\* C4: under fair scheduling (every bot keeps taking steps, and order_lock is
\* free again and again, so no thread waits for it forever), if from some point
\* on a running bot exists, every order submitted eventually has status
\* COMPLETE.
C4_EveryOrderEventuallyComplete ==
    ([]<>(order_lock = None) /\ <>[](\E b \in BotRefs : Running(b))) =>
        \A o \in 1..MaxOrders :
            [](o \in OrderRefs => <>Complete(o))

\* ---- C5 -------------------------------------------------------------------
\* C5: no reachable state has the main thread waiting in remove_bot's join,
\* order_lock held, for a bot that is itself waiting for order_lock in
\* get_next_order.
C5_NoCircularWait ==
    ~(/\ m_pc = "rb_join"
      /\ order_lock = "main"
      /\ bot[m_bot].pc = "L30")

\* ---- C6 -------------------------------------------------------------------
\* C6: orders only grows by appending; every add_order appends exactly the new
\* Order; the order_numbers in orders are strictly increasing (so unique), and
\* orders holds every Order ever constructed.
C6_OrdersAppendOnlyIncreasing ==
    [][/\ Len(orders) <= Len(orders')
       /\ SubSeq(orders', 1, Len(orders)) = orders
       /\ Len(orders') = Len(ord')
       /\ Len(ord') > Len(ord) =>
              /\ Len(orders') = Len(orders) + 1
              /\ orders'[Len(orders')] = Len(ord')
       /\ \A i, j \in 1..Len(orders') :
              i < j => ord'[orders'[i]].order_number < ord'[orders'[j]].order_number
      ]_vars

\* three add_order calls interleaved with a dispatch and a removed bot
C6_Witness ==
    /\ Len(orders) = 3
    /\ dispatched # {}
    /\ removed # {}

\* ---- C7 -------------------------------------------------------------------
\* C7: an order's status changes only PENDING->PROCESSING, PROCESSING->COMPLETE
\* or PROCESSING->PENDING; in particular never PENDING->COMPLETE and never
\* away from COMPLETE.
C7_StatusTransitions ==
    [][\A o \in OrderRefs :
          ord'[o].status # ord[o].status =>
              <<ord[o].status, ord'[o].status>> \in
                  {<<"PENDING", "PROCESSING">>,
                   <<"PROCESSING", "COMPLETE">>,
                   <<"PROCESSING", "PENDING">>}]_vars

\* one order went through to COMPLETE and another was cancelled back to PENDING
C7_Witness ==
    /\ \E o \in OrderRefs : ord[o].status = "COMPLETE" /\ ord[o].end_time # None
    /\ \E b \in BotRefs :
          /\ bot[b].pc = "L43"
          /\ ord[bot[b].order].status = "PENDING"

\* ---- C8 -------------------------------------------------------------------
\* C8: in every state a query can observe (display_orders holds order_lock), a
\* PROCESSING order has start_time set, a PENDING order has it unset and a
\* COMPLETE order has end_time set.
C8_QuerySeesConsistentOrders ==
    m_pc = "display" =>
        \A o \in OrderRefs :
            /\ ord[o].status = "PROCESSING" => ord[o].start_time # None
            /\ ord[o].status = "PENDING" => ord[o].start_time = None
            /\ ord[o].status = "COMPLETE" => ord[o].end_time # None

\* ---- C9 -------------------------------------------------------------------
\* C9: once remove_bot has returned for a bot, that bot's stop_event is set and
\* its thread has terminated (so it takes no further step of run()).
C9_RemovedBotStopped ==
    \A b \in removed : bot[b].stop_event /\ Terminated(b)

\* remove_bot has returned for a bot that was stopped mid-task
C9_Witness ==
    \E b \in removed : bot[b].pc = "L43" /\ m_pc = "menu"

\* ---- C10 ------------------------------------------------------------------
\* C10: add_bot hands out the ids 1, 2, 3, ... in turn (unique, sequential,
\* never reused), and the bot remove_bot takes out of a pool has a larger
\* bot_id than every bot left in the pool.
C10_PoolIsStackIdsSequential ==
    /\ \A i \in 1..Len(issued) : issued[i] = i
    /\ \A b, c \in BotRefs : b # c => bot[b].bot_id # bot[c].bot_id
    /\ m_pc = "rb_join" =>
           \A r \in Range(bots) : bot[r].bot_id < bot[m_bot].bot_id

\* remove_bot has taken a bot out of a pool of two
C10_Witness ==
    /\ m_pc = "rb_join"
    /\ bots # <<>>
    /\ Len(issued) = 2

\* ---- C11 ------------------------------------------------------------------
\* C11: a call of remove_bot that finds the pool empty returns to the menu
\* without an error and its steps leave the Order objects, orders,
\* pending_orders, bots, the Bot objects and both id counters unchanged.
C11_RemoveBotEmptyNoOp ==
    [][((m_pc = "rb_none" \/ m_pc' = "rb_none") /\ m_pc' # m_pc) =>
          /\ bots = <<>>
          /\ m_pc' \in {"rb_none", "menu"}
          /\ m_pc' = "menu" => order_lock' = None
          /\ UNCHANGED <<ord, orders, pending_orders, bots, bot, order_number,
                         bot_id_counter>>]_vars

\* remove_bot called on a pool emptied by an earlier remove_bot, with orders
\* placed and one of them dispatched
C11_Witness ==
    /\ m_pc = "rb_none"
    /\ removed # {}
    /\ pending_orders # <<>>
    /\ dispatched # {}

\* ---- C12 ------------------------------------------------------------------
\* C12: once shutdown has returned, every bot of the pool has terminated and no
\* order has status PROCESSING.
C12_ShutdownLeavesNothingProcessing ==
    m_pc = "exited" =>
        /\ \A b \in Range(bots) : Terminated(b)
        /\ \A o \in OrderRefs : ord[o].status # "PROCESSING"

\* ---- C13 ------------------------------------------------------------------
\* C13: a second call of shutdown, made once the first has returned, changes
\* nothing: none of its steps writes an Order, orders, pending_orders, the pool
\* or a Bot (its stop_event, its position), and every join it makes is on a
\* thread that has already terminated, so the call does not block.
C13_ShutdownTwiceSameState ==
    [][(m_pc \in {"exited", "shutdown2", "sd_join2"} /\ m_pc' # m_pc) =>
          /\ UNCHANGED <<ord, orders, pending_orders, bots, bot, order_number,
                         bot_id_counter>>
          /\ m_pc' = "sd_join2" => Terminated(m_bot')]_vars

\* the second shutdown has returned, over a pool of two bots, one of which the
\* first shutdown had stopped mid-task
C13_Witness ==
    /\ m_pc = "exited2"
    /\ Len(bots) = 2
    /\ \E b \in Range(bots) : bot[b].pc = "L43"

\* ---- C14 ------------------------------------------------------------------
\* C14: in a fair run where no bot is ever stopped and a bot is added at some
\* point, every order submitted eventually has status COMPLETE and keeps it:
\* from some point on every order placed is COMPLETE (the orders of a run are
\* finitely many, so this says of each of them that it ends COMPLETE for good).
C14_AllCompleteWhenNeverStopped ==
    (<>(bot # <<>>)) => <>[](\A o \in OrderRefs : Complete(o))

\* every order placed is COMPLETE, more orders than bots
C14_Witness ==
    /\ Len(ord) >= 2
    /\ Len(bot) = 1
    /\ \A o \in OrderRefs : Complete(o) /\ ord[o].end_time # None
\* ---- C15 ------------------------------------------------------------------
\* C15: as long as no Bot has ever been constructed, every order has status
\* PENDING and pending_orders holds exactly the orders of the orders list, each
\* once; and (bots or not) a call of add_order leaves every Order that existed
\* before it as it was.
C15_NoBotsAllPending ==
    [][/\ bot' = <<>> =>
              /\ \A o \in DOMAIN ord' : ord'[o].status = "PENDING"
              /\ Range(pending_orders') = Range(orders')
              /\ Len(pending_orders') = Len(orders')
       /\ Len(ord') > Len(ord) => \A o \in OrderRefs : ord'[o] = ord[o]
      ]_vars

\* no bot, three orders placed, the third a VIP that went in behind the first
\* VIP and before the normal order
C15_Witness ==
    /\ bot = <<>>
    /\ pending_orders = <<1, 3, 2>>
    /\ \A o \in OrderRefs : ord[o].status = "PENDING"
\* ---- C16 ------------------------------------------------------------------
\* C16 (as stated): a bot whose stop_event is set while the order it took is
\* PROCESSING does not go on to mark that order COMPLETE.
C16_StopWhileProcessingAborts ==
    [][\A b \in BotRefs :
          (/\ bot[b].stop_event
           /\ bot[b].pc \notin {"L29", "L30", "end"}
           /\ ord[bot[b].order].status = "PROCESSING") =>
              ord'[bot[b].order].status # "COMPLETE"]_vars

\* C16 (amended): a bot leaves the wait loop for the abort of lines 39-43 only
\* with stop_event set; from there it does lines 40, 41, 42, 43 and nothing
\* else, and when it returns at line 43 its order has status PENDING and no
\* start_time and its current_order is None; after the return it takes no
\* step. A bot whose stop_event is set while it is at lines 34-48 dequeues
\* nothing more: it stays within those lines, the test of line 29 and the end
\* of run().
C16_StopSeenAtCheckAborts ==
    [][\A b \in BotRefs :
          /\ (bot[b].pc = "L37" /\ bot'[b].pc = "L40") => bot[b].stop_event
          /\ (bot[b].pc \in {"L40", "L41", "L42"} /\ bot'[b].pc # bot[b].pc) =>
                 <<bot[b].pc, bot'[b].pc>> \in
                     {<<"L40", "L41">>, <<"L41", "L42">>, <<"L42", "L43">>}
          /\ (bot[b].pc = "L42" /\ bot'[b].pc = "L43") =>
                 /\ ord'[bot[b].order].status = "PENDING"
                 /\ ord'[bot[b].order].start_time = None
                 /\ bot'[b].current_order = None
          /\ bot[b].pc = "L43" => bot'[b] = bot[b]
          /\ (/\ bot[b].stop_event
              /\ bot[b].pc \in {"L34", "L37", "L40", "L41", "L42", "L43",
                                "L45", "L46", "L48", "L29", "end"}) =>
                 bot'[b].pc \in {"L34", "L37", "L40", "L41", "L42", "L43",
                                 "L45", "L46", "L48", "L29", "end"}
      ]_vars

\* one bot has aborted and returned at line 43 with an order still waiting in
\* pending_orders, another was stopped mid-task too late and ended at line 29
\* with its order COMPLETE
C16_Witness ==
    /\ pending_orders # <<>>
    /\ \E b \in BotRefs :
          /\ bot[b].pc = "L43"
          /\ ord[bot[b].order].status = "PENDING"
    /\ \E b \in BotRefs :
          /\ bot[b].pc = "end"
          /\ \E o \in dispatched : Complete(o)
\* ---- C17 ------------------------------------------------------------------
\* C17: no thread holds order_lock while it is blocked in a wait: the main
\* thread is never inside the join of remove_bot, waiting for a bot that has
\* not yet terminated, with order_lock held. (A bot takes order_lock only for
\* get_next_order, which waits for nothing.)
C17_LockNotHeldAcrossWait ==
    (m_pc = "rb_join" /\ ~Terminated(m_bot)) => order_lock = None

\* ---- C18 ------------------------------------------------------------------
\* C18: no order is the current_order of two bots, pending_orders holds no
\* order twice, and the current_order of a bot is not in pending_orders.
C18_NoDoubleDispatch ==
    /\ \A a, b \in BotRefs :
          (/\ a # b
           /\ bot[a].pc \in {"L33", "L34", "L37", "L40", "L41", "L42",
                             "L45", "L46", "L48"}
           /\ bot[b].pc \in {"L33", "L34", "L37", "L40", "L41", "L42",
                             "L45", "L46", "L48"}) =>
              bot[a].current_order # bot[b].current_order
    /\ \A i, j \in 1..Len(pending_orders) :
          i # j => pending_orders[i] # pending_orders[j]
    /\ \A b \in BotRefs :
          bot[b].pc \in {"L33", "L34", "L37", "L40", "L41", "L42",
                         "L45", "L46", "L48"} =>
              bot[b].current_order \notin Range(pending_orders)

\* two bots hold an order each while a third order waits in pending_orders
C18_Witness ==
    /\ pending_orders # <<>>
    /\ Len(bot) = 2
    /\ \A b \in BotRefs : bot[b].pc = "L37"

\* ---- C19 ------------------------------------------------------------------
\* C19: a bot whose stop_event is set while it holds no order takes no order
\* out of pending_orders afterwards: a bot that has stop_event set and no
\* order (it is at the test of line 29, at the call of line 30 or at the end
\* of run()) makes no step that gives it one.
C19_StoppedIdleBotTakesNothing ==
    [][\A b \in BotRefs :
          (bot[b].stop_event /\ bot[b].pc \in {"L29", "L30", "end"}) =>
              bot'[b].pc \in {"L29", "L30", "end"}]_vars

\* ---- C20 ------------------------------------------------------------------
\* C20: every order in pending_orders is in the orders list, has status
\* PENDING and has neither start_time nor end_time set.
C20_PendingOrdersArePending ==
    \A o \in Range(pending_orders) :
        /\ o \in Range(orders)
        /\ ord[o].status = "PENDING"
        /\ ord[o].start_time = None
        /\ ord[o].end_time = None

\* an order waits in pending_orders while another is PROCESSING and a third
\* is COMPLETE
C20_Witness ==
    /\ pending_orders # <<>>
    /\ \E o \in OrderRefs : ord[o].status = "PROCESSING" /\ ord[o].start_time # None
    /\ \E o \in OrderRefs : Complete(o) /\ ord[o].end_time # None
====
